---- MODULE Spec2Model ----
(***************************************************************************)
(* Model of the pattern engine of mygrep (src/src/regex.rs): the locale    *)
(* gate, the matcher nodes' evaluate, and the parse_regex scanner with its *)
(* RegexBuilder.  Bytes are one-character strings; offsets are 0-based as  *)
(* in the source, so the byte at offset k of a sequence s is s[k + 1].     *)
(***************************************************************************)
EXTENDS Integers, Sequences, FiniteSets, TLC

VARIABLES
    lc_all,         \* env::var("LC_ALL") as the process sees it
    lc_ctype,       \* env::var("LC_CTYPE")
    pc,             \* position of the call under study
    expr,           \* parse_regex's argument (LiteralRegex's literal in SpecLiteral)
    i,              \* parse_regex's scan offset
    state,          \* parse_regex's ParseState
    regex_builder,  \* RegexBuilder.regex.expr_list
    abort,          \* the panic that ended the call, "none" otherwise
    data,           \* evaluate's subject
    start,          \* evaluate's start offset
    result,         \* evaluate's return value
    self,           \* the node whose evaluate is running on its own
    locals,         \* that call's loop variables
    calls,          \* the Regex::evaluate calls in progress on one shared Regex
    pattern,        \* Glob.pattern, as its path components
    filename,       \* is_match's argument, as its path components
    matched,        \* is_match's return value
    pool,           \* the ThreadPool's shared fields: count, queue, workers, quit
    manager,        \* position of the manager thread
    caller,         \* position of the thread that owns the ThreadPool
    jobs,           \* history: the jobs handed over, started and finished
    files,          \* divide_files_by_workers's files, each with what fs::metadata says
    n_workers       \* divide_files_by_workers's n_workers

\* the variables of the node-level and of the shared evaluations
nodeVars == <<self, locals, calls>>
\* the variables of the glob matcher
globVars == <<pattern, filename, matched>>
\* the variables of the thread pool
poolVars == <<pool, manager, caller, jobs>>
\* the arguments of divide_files_by_workers
mainVars == <<files, n_workers>>

vars == <<lc_all, lc_ctype, pc, expr, i, state, regex_builder, abort, data, start, result,
          self, locals, calls, pattern, filename, matched, pool, manager, caller, jobs,
          files, n_workers>>

(***************************************************************************)
(* Bounds of the model.                                                    *)
(***************************************************************************)
\* longest pattern drawn from the whole alphabet
MaxPatLen == 3
\* longest subject drawn from the whole subject alphabet
MaxDataLen == 2
\* longest literal and longest subject handed to LiteralRegex directly
MaxLitLen == 3

\* usize::MAX, the open upper bound of an interval; TLC's largest integer stands for it
UsizeMax == 2147483647

(***************************************************************************)
(* Results of evaluate: Ok(len), Err(()), or a panic (todo!()).            *)
(***************************************************************************)
Ok(n) == [tag |-> "Ok", len |-> n]
Err == [tag |-> "Err", len |-> 0]
Panic == [tag |-> "Panic", len |-> 0]
NoResult == [tag |-> "None", len |-> 0]

\* no node-level call, no shared evaluation and no glob call under way
NoNode == [kind |-> "None"]
NoLocals == [count |-> 0, atleast |-> 0, atmost |-> 0]
NodeIdle == self = NoNode /\ locals = NoLocals /\ calls = <<>>
GlobIdle == pattern = <<>> /\ filename = <<>> /\ matched = "none"

\* no thread pool constructed
NoPool == [count |-> 0, queue |-> <<>>, workers |-> <<>>, quit |-> FALSE]
NoJobs == [handed |-> <<>>, started |-> <<>>, finished |-> {}]
PoolIdle == pool = NoPool /\ manager = "none" /\ caller = "none" /\ jobs = NoJobs

\* divide_files_by_workers not called
MainIdle == files = <<>> /\ n_workers = 0

(***************************************************************************)
(* Matcher nodes.                                                          *)
(***************************************************************************)
LiteralRegex(bytes) == [kind |-> "Literal", regex |-> bytes]
CharClassRegex(bytes) == [kind |-> "CharClass", regex |-> bytes]
DotRegex == [kind |-> "Dot"]
ZeroOrOneRegex(re) == [kind |-> "ZeroOrOne", regex |-> re]
ZeroOrMoreRegex(re) == [kind |-> "ZeroOrMore", regex |-> re]
OneOrMoreRegex(re) == [kind |-> "OneOrMore", regex |-> re]
IntervalRegex(re, atleast, atmost) ==
    [kind |-> "Interval", regex |-> re, atleast |-> atleast, atmost |-> atmost]

\* LiteralRegex::evaluate, the while loop from index k on
RECURSIVE LiteralLoop(_, _, _, _)
LiteralLoop(regex, d, s, k) ==
    IF k < Len(regex)
    THEN IF s + k >= Len(d) \/ regex[k + 1] # d[s + k + 1]
         THEN Err
         ELSE LiteralLoop(regex, d, s, k + 1)
    ELSE Ok(k)

\* the same loop, accepting the subject running out before the literal does
RECURSIVE LiteralLoopShortInput(_, _, _, _)
LiteralLoopShortInput(regex, d, s, k) ==
    IF k < Len(regex)
    THEN IF s + k >= Len(d)
         THEN Ok(k)
         ELSE IF regex[k + 1] # d[s + k + 1]
              THEN Err
              ELSE LiteralLoopShortInput(regex, d, s, k + 1)
    ELSE Ok(k)

LiteralEvaluateShortInput(regex, d, s) == LiteralLoopShortInput(regex, d, s, 0)

LiteralEvaluate(regex, d, s) == LiteralLoop(regex, d, s, 0)

\* `.or::<()>(Ok(0usize)).unwrap()`: a failed attempt counts as length 0
OrZero(r) == IF r.tag = "Err" THEN Ok(0) ELSE r

RECURSIVE NodeEvaluate(_, _, _)
RECURSIVE RepeatLoop(_, _, _, _)
RECURSIVE IntervalAtLeastLoop(_, _, _, _, _)
RECURSIVE IntervalAtMostLoop(_, _, _, _, _)

\* the repetition loop giving up after its first iteration instead of running on
RepeatLoopOnce(re, d, s, count) ==
    IF s + count < Len(d)
    THEN LET step == OrZero(NodeEvaluate(re, d, s + count))
         IN  IF step.tag = "Panic" THEN Panic ELSE Ok(count + step.len)
    ELSE Ok(count)

\* the `while start + count < data.len()` loop shared by ZeroOrMoreRegex and
\* OneOrMoreRegex
RepeatLoop(re, d, s, count) ==
    IF s + count < Len(d)
    THEN LET step == OrZero(NodeEvaluate(re, d, s + count))
         IN  IF step.tag = "Panic" THEN Panic
             ELSE IF step.len = 0 THEN Ok(count)
             ELSE RepeatLoop(re, d, s, count + step.len)
    ELSE Ok(count)

\* IntervalRegex::evaluate, second loop
IntervalAtMostLoop(node, d, s, k, atmost) ==
    IF s + k < Len(d) /\ atmost < node.atmost
    THEN LET step == OrZero(NodeEvaluate(node.regex, d, s + k))
         IN  IF step.tag = "Panic" THEN Panic
             ELSE IF step.len = 0 THEN Ok(k)
             ELSE IntervalAtMostLoop(node, d, s, k + step.len, atmost + 1)
    ELSE Ok(k)

\* IntervalRegex::evaluate, first loop, falling into the second
IntervalAtLeastLoop(node, d, s, k, atleast) ==
    IF s + k < Len(d) /\ atleast < node.atleast
    THEN LET step == NodeEvaluate(node.regex, d, s + k)
         IN  IF step.tag # "Ok" THEN step
             ELSE IntervalAtLeastLoop(node, d, s, k + step.len, atleast + 1)
    ELSE IntervalAtMostLoop(node, d, s, k, 0)

ZeroOrOneEvaluate(node, d, s) == OrZero(NodeEvaluate(node.regex, d, s))

ZeroOrMoreEvaluate(node, d, s) == RepeatLoop(node.regex, d, s, 0)

OneOrMoreEvaluate(node, d, s) ==
    LET step == NodeEvaluate(node.regex, d, s)
    IN  IF step.tag # "Ok" THEN step ELSE RepeatLoop(node.regex, d, s, step.len)

IntervalEvaluate(node, d, s) == IntervalAtLeastLoop(node, d, s, 0, 0)

\* CharClassRegex::evaluate is todo!()
CharClassEvaluate(node, d, s) == Panic

\* DotRegex::evaluate is todo!()
DotEvaluate(d, s) == Panic

\* dispatch of RegexTrait::evaluate over the node kinds
NodeEvaluate(node, d, s) ==
    CASE node.kind = "Literal" -> LiteralEvaluate(node.regex, d, s)
      [] node.kind = "CharClass" -> CharClassEvaluate(node, d, s)
      [] node.kind = "Dot" -> DotEvaluate(d, s)
      [] node.kind = "ZeroOrOne" -> ZeroOrOneEvaluate(node, d, s)
      [] node.kind = "ZeroOrMore" -> ZeroOrMoreEvaluate(node, d, s)
      [] node.kind = "OneOrMore" -> OneOrMoreEvaluate(node, d, s)
      [] node.kind = "Interval" -> IntervalEvaluate(node, d, s)

\* Regex::evaluate, the for loop from node k (1-based) on with k-1 nodes done
RECURSIVE RegexLoop(_, _, _, _, _)
RegexLoop(expr_list, d, begin, n, k) ==
    IF k > Len(expr_list) THEN Ok(n)
    ELSE IF begin + n >= Len(d) THEN Err
    ELSE LET r == NodeEvaluate(expr_list[k], d, begin + n)
         IN  IF r.tag # "Ok" THEN r
             ELSE RegexLoop(expr_list, d, begin, n + r.len, k + 1)

RegexEvaluate(expr_list, d, s) == RegexLoop(expr_list, d, s, 0, 1)

(***************************************************************************)
(* The locale gate.                                                        *)
(***************************************************************************)
\* env::var's three outcomes
VarOk(s) == [tag |-> "Ok", val |-> s]
VarNotPresent == [tag |-> "NotPresent", val |-> ""]
VarNotUnicode == [tag |-> "NotUnicode", val |-> ""]

Some(v) == [some |-> TRUE, val |-> v]
None == [some |-> FALSE, val |-> ""]

\* env::var("LC_ALL").or(env::var("LC_CTYPE")).ok()
get_locale(all, ctype) ==
    LET r == IF all.tag = "Ok" THEN all ELSE ctype
    IN  IF r.tag = "Ok" THEN Some(r.val) ELSE None

is_locale_c(all, ctype) == get_locale(all, ctype) = Some("C")

(***************************************************************************)
(* Helpers of the `}` arm: splitting on ',' and usize::from_str_radix.     *)
(***************************************************************************)
\* a byte that makes str::from_utf8 fail
InvalidUtf8Byte == "\\xFF"

\* str::from_utf8(interval_slice) succeeds
IsUtf8(bytes) == \A k \in 1..Len(bytes) : bytes[k] # InvalidUtf8Byte

Digits == <<"0", "1", "2", "3", "4", "5", "6", "7", "8", "9">>

IsDigit(c) == \E k \in 1..10 : Digits[k] = c

DigitValue(c) == (CHOOSE k \in 1..10 : Digits[k] = c) - 1

\* the digits of s from index k on, accumulated onto acc; overflow is an error
RECURSIVE ParseDigits(_, _, _)
ParseDigits(s, k, acc) ==
    IF k > Len(s) THEN [ok |-> TRUE, val |-> acc]
    ELSE IF ~IsDigit(s[k]) THEN [ok |-> FALSE, val |-> 0]
    ELSE IF acc > (UsizeMax - DigitValue(s[k])) \div 10 THEN [ok |-> FALSE, val |-> 0]
    ELSE ParseDigits(s, k + 1, acc * 10 + DigitValue(s[k]))

\* usize::from_str_radix(s, 10): an optional '+' sign, then at least one digit
from_str_radix(s) ==
    IF s = <<>> THEN [ok |-> FALSE, val |-> 0]
    ELSE IF s[1] = "+"
         THEN IF Len(s) = 1 THEN [ok |-> FALSE, val |-> 0] ELSE ParseDigits(s, 2, 0)
         ELSE ParseDigits(s, 1, 0)

\* index of the first ',' of s at or after k, 0 when there is none
RECURSIVE CommaFrom(_, _)
CommaFrom(s, k) ==
    IF k > Len(s) THEN 0 ELSE IF s[k] = "," THEN k ELSE CommaFrom(s, k + 1)

\* split_iter.next(), first call: the text before the first ','
SplitFirst(s) ==
    LET c == CommaFrom(s, 1) IN IF c = 0 THEN s ELSE SubSeq(s, 1, c - 1)

\* split_iter.next(), second call: None when s holds no ','
SplitSecond(s) ==
    LET c == CommaFrom(s, 1)
        c2 == CommaFrom(s, c + 1)
    IN  IF c = 0 THEN [some |-> FALSE, val |-> <<>>]
        ELSE Some(IF c2 = 0 THEN SubSeq(s, c + 1, Len(s)) ELSE SubSeq(s, c + 1, c2 - 1))

\* what the `}` arm makes of the text between the braces: kept as literal
\* text, or an interval with its two bounds
AsLiteral == [interval |-> FALSE, atleast |-> 0, atmost |-> 0]
AsInterval(a, b) == [interval |-> TRUE, atleast |-> a, atmost |-> b]

ParseInterval(interval_data) ==
    LET first == SplitFirst(interval_data)
        first_num_res == from_str_radix(first)
        opt == SplitSecond(interval_data)
        second_res == from_str_radix(opt.val)
    IN  IF interval_data = <<>> THEN AsLiteral
        ELSE IF Len(first) > 0 /\ ~first_num_res.ok THEN AsLiteral
        ELSE IF ~opt.some
             THEN IF ~first_num_res.ok THEN AsLiteral
                  ELSE AsInterval(first_num_res.val, first_num_res.val)
             ELSE IF (Len(opt.val) > 0 /\ ~second_res.ok)
                     \/ (~first_num_res.ok /\ ~second_res.ok)
                  THEN AsLiteral
                  ELSE AsInterval(IF first_num_res.ok THEN first_num_res.val ELSE 0,
                                  IF second_res.ok THEN second_res.val ELSE UsizeMax)

(***************************************************************************)
(* RegexBuilder: each operation on the expr_list it owns.  The wrapping    *)
(* operations are applied to a non-empty list; on an empty one the source  *)
(* reaches unreachable!(), which the scanner's actions model as an abort.  *)
(***************************************************************************)
Front(list) == SubSeq(list, 1, Len(list) - 1)
Last(list) == list[Len(list)]

create_literal_regex(list, bytes) == Append(list, LiteralRegex(bytes))
create_char_class_regex(list, bytes) == Append(list, CharClassRegex(bytes))
create_dot_regex(list) == Append(list, DotRegex)
create_zero_or_one_regex(list) == Append(Front(list), ZeroOrOneRegex(Last(list)))
create_zero_or_more_regex(list) == Append(Front(list), ZeroOrMoreRegex(Last(list)))
create_one_or_more_regex(list) == Append(Front(list), OneOrMoreRegex(Last(list)))
create_interval_expr_regex(list, atleast, atmost) ==
    Append(Front(list), IntervalRegex(Last(list), atleast, atmost))

(***************************************************************************)
(* Inputs.                                                                 *)
(***************************************************************************)
\* the bytes parse_regex gives a meaning to in some arm
SpecialBytes == {"[", "]", "^", "$", "\\", ".", "?", "*", "+", "{", "}"}

\* bytes of the patterns: the special ones, a letter, a digit and the comma
PatternAlphabet == SpecialBytes \cup {"a", "1", ","}

\* bytes of the subjects
DataAlphabet == {"a", "1"}

SeqsUpTo(S, n) == UNION {[1..k -> S] : k \in 0..n}

\* patterns and subjects of the documented cases
ExamplePatterns ==
    { <<"t", "e", "s", "t", " ", "l", "i", "t", "e", "r", "a", "l">>,
      <<"t", "e", "s", "t", "{", "0", ",", "1", "}">>,
      <<"a", "{", "0", ",", "1", "}">>,
      <<"a", "{", "x", "}">>,
      <<"[", "]", "a", "]">>,
      <<"{", "[", "]", "]", "}">>,
      <<"{", "[", "a", "]", "]", "}">>,
      <<"a", "{", InvalidUtf8Byte, "}">> }

ExampleSubjects ==
    { <<"t", "e", "s", "t", " ", "l", "i", "t", "e", "r", "a", "l">>,
      <<"t", "e", "s", "t", " ", "n", "o", "n", " ", "m", "a", "t", "c", "h", "i", "n", "g",
        " ", "l", "i", "t", "e", "r", "a", "l">>,
      <<"t", "e", "s", "t", "t", "e", "s", "t">>,
      <<"a", "a", "a">>,
      <<"a", "{", "x", "}">> }

\* patterns whose interval bodies reach every branch of the `}` arm: a signed
\* token, three tokens, and the four numeric forms after a literal
IntervalPatterns ==
    { <<"a", "{", "+", "1", "}">>,
      <<"a", "{", "1", ",", "1", ",", "1", "}">>,
      <<"a", "{", "1", "}">>,
      <<"a", "{", "1", ",", "}">>,
      <<"a", "{", ",", "1", "}">>,
      <<"a", "{", "1", ",", "1", "1", "}">>,
      <<"a", "{", ",", "}">> }

Patterns == SeqsUpTo(PatternAlphabet, MaxPatLen) \cup ExamplePatterns \cup IntervalPatterns

\* (subject, start offset) pairs handed to evaluate
EvalInputs ==
    {<<d, s>> : d \in SeqsUpTo(DataAlphabet, MaxDataLen), s \in 0..MaxDataLen}
    \cup {<<d, 0>> : d \in ExampleSubjects}

\* values of a locale variable in the environment
LocaleValues == {VarNotPresent, VarNotUnicode, VarOk("C"), VarOk(""), VarOk("en_US.UTF-8")}

(***************************************************************************)
(* parse_regex.                                                            *)
(***************************************************************************)
\* ParseState::default()
DefaultParseState ==
    [character_class_parsing_in_progress |-> FALSE,
     literal_string_in_progress |-> FALSE,
     stack |-> <<>>,
     literal_string |-> <<>>,
     caret_anchor_present |-> FALSE,
     dollar_anchor_present |-> FALSE,
     backslash_present |-> FALSE,
     interval_expr_parsing_in_progress |-> FALSE]

\* the call: the locale gate, then the scanner's initial state
parse_regex(p) ==
    /\ pc = "start"
    /\ expr' = p
    /\ pc' = IF is_locale_c(lc_all, lc_ctype) THEN "scan" ELSE "err"
    /\ UNCHANGED <<lc_all, lc_ctype, i, state, regex_builder, abort, data, start, result, nodeVars, globVars, poolVars, mainVars>>

\* parse_regex called on some pattern
CallParseRegex == pc = "start" /\ \E p \in Patterns : parse_regex(p)

\* `while i < expr.len()`: one more byte to match on
Scanning == pc = "scan" /\ i < Len(expr)

\* expr[i]
Cur == expr[i + 1]

\* the guard shared by the arms of `.`, `?`, `*`, `+`, `{` and `}`
Unescaped == ~state.character_class_parsing_in_progress /\ ~state.backslash_present

\* the block that ends a pending literal run before a `.`, `?`, `*` or `+`
FlushedBuilder ==
    IF state.literal_string_in_progress
    THEN create_literal_regex(regex_builder, state.literal_string)
    ELSE regex_builder

FlushedState ==
    IF state.literal_string_in_progress
    THEN [state EXCEPT !.literal_string = <<>>, !.literal_string_in_progress = FALSE]
    ELSE state

\* the scan goes on with the next byte
Step(st, rb) ==
    /\ state' = st
    /\ regex_builder' = rb
    /\ i' = i + 1
    /\ UNCHANGED <<lc_all, lc_ctype, pc, expr, abort, data, start, result, nodeVars, globVars, poolVars, mainVars>>

\* unreachable!() reached: the call panics
Abort(where) ==
    /\ pc' = "panic"
    /\ abort' = where
    /\ UNCHANGED <<lc_all, lc_ctype, expr, i, state, regex_builder, data, start, result, nodeVars, globVars, poolVars, mainVars>>

\* '[' => ...
OpenBracket ==
    /\ Scanning
    /\ Cur = "["
    /\ Step(IF ~state.character_class_parsing_in_progress
            THEN [state EXCEPT !.character_class_parsing_in_progress = TRUE,
                               !.stack = Append(@, i)]
            ELSE state,
            regex_builder)

\* the ']' arm without the `i - start == 1` case: the first ']' closes too
CloseBracketAlwaysCloses ==
    /\ Scanning
    /\ Cur = "]"
    /\ state.character_class_parsing_in_progress
    /\ IF state.stack = <<>>
       THEN Abort("parse_regex: stack.pop() on ']'")
       ELSE LET from == Last(state.stack)
                popped == [state EXCEPT !.stack = Front(@)]
            IN  IF Len(popped.stack) = 0
                THEN Step([popped EXCEPT !.character_class_parsing_in_progress = FALSE],
                          create_char_class_regex(regex_builder,
                                                  SubSeq(expr, from + 1, i + 1)))
                ELSE Step(popped, regex_builder)

\* ']' if state.character_class_parsing_in_progress => ...
CloseBracket ==
    /\ Scanning
    /\ Cur = "]"
    /\ state.character_class_parsing_in_progress
    /\ IF state.stack = <<>>
       THEN Abort("parse_regex: stack.pop() on ']'")
       ELSE LET from == Last(state.stack)
                popped == [state EXCEPT !.stack = Front(@)]
            IN  IF Len(popped.stack) = 0
                THEN IF i - from = 1
                     THEN Step([popped EXCEPT
                                   !.stack = Append(@, from),
                                   !.literal_string =
                                       Append(IF ~state.literal_string_in_progress
                                              THEN <<>> ELSE @, Cur)],
                               regex_builder)
                     ELSE Step([popped EXCEPT !.character_class_parsing_in_progress = FALSE],
                               create_char_class_regex(regex_builder,
                                                       SubSeq(expr, from + 1, i + 1)))
                ELSE Step(popped, regex_builder)

\* '^' if i == 0 => ...
CaretAnchor ==
    /\ Scanning
    /\ Cur = "^"
    /\ i = 0
    /\ Step([state EXCEPT !.caret_anchor_present = TRUE], regex_builder)

\* '$' if i == expr.len() - 1 => ...
DollarAnchor ==
    /\ Scanning
    /\ Cur = "$"
    /\ i = Len(expr) - 1
    /\ Step([state EXCEPT !.dollar_anchor_present = TRUE], regex_builder)

\* '\\' if !state.backslash_present => ...
Backslash ==
    /\ Scanning
    /\ Cur = "\\"
    /\ ~state.backslash_present
    /\ Step([state EXCEPT !.backslash_present = TRUE], regex_builder)

\* '.' if ... => ...
Dot ==
    /\ Scanning
    /\ Cur = "."
    /\ Unescaped
    /\ Step(FlushedState, create_dot_regex(FlushedBuilder))

\* '?' if ... => ...
ZeroOrOne ==
    /\ Scanning
    /\ Cur = "?"
    /\ Unescaped
    /\ IF FlushedBuilder = <<>>
       THEN Abort("create_zero_or_one_regex")
       ELSE Step(FlushedState, create_zero_or_one_regex(FlushedBuilder))

\* '*' if ... => ...
ZeroOrMore ==
    /\ Scanning
    /\ Cur = "*"
    /\ Unescaped
    /\ IF FlushedBuilder = <<>>
       THEN Abort("create_zero_or_more_regex")
       ELSE Step(FlushedState, create_zero_or_more_regex(FlushedBuilder))

\* '+' if ... => ...
OneOrMore ==
    /\ Scanning
    /\ Cur = "+"
    /\ Unescaped
    /\ IF FlushedBuilder = <<>>
       THEN Abort("create_one_or_more_regex")
       ELSE Step(FlushedState, create_one_or_more_regex(FlushedBuilder))

\* '{' if ... => ...
OpenBrace ==
    /\ Scanning
    /\ Cur = "{"
    /\ Unescaped
    /\ Step([state EXCEPT !.interval_expr_parsing_in_progress = TRUE,
                          !.stack = Append(@, i)],
            regex_builder)

\* the fallback of the `}` arm: the text between the braces joins the literal run
KeptAsLiteral(st, interval_slice) ==
    [st EXCEPT !.literal_string_in_progress = TRUE,
               !.literal_string = (IF ~st.literal_string_in_progress THEN <<>> ELSE @)
                                  \o interval_slice]

\* '}' if ... && state.interval_expr_parsing_in_progress => ...
CloseBrace ==
    /\ Scanning
    /\ Cur = "}"
    /\ Unescaped
    /\ state.interval_expr_parsing_in_progress
    /\ IF state.stack = <<>>
       THEN Abort("parse_regex: stack.pop() on '}'")
       ELSE LET from == Last(state.stack)
                popped == [state EXCEPT !.interval_expr_parsing_in_progress = FALSE,
                                        !.stack = Front(@)]
                interval_slice == SubSeq(expr, from + 2, i)
                parsed == ParseInterval(interval_slice)
            IN  IF ~IsUtf8(interval_slice)
                THEN /\ pc' = "err"
                     /\ UNCHANGED <<lc_all, lc_ctype, expr, i, state, regex_builder, abort,
                                    data, start, result, nodeVars, globVars, poolVars, mainVars>>
                ELSE IF ~parsed.interval
                THEN Step(KeptAsLiteral(popped, interval_slice), regex_builder)
                ELSE IF regex_builder = <<>>
                THEN Abort("create_interval_expr_regex")
                ELSE Step(popped,
                          create_interval_expr_regex(regex_builder, parsed.atleast,
                                                     parsed.atmost))

\* some earlier arm of the match takes the byte
TakenByAnArm ==
    \/ Cur = "["
    \/ Cur = "]" /\ state.character_class_parsing_in_progress
    \/ Cur = "^" /\ i = 0
    \/ Cur = "$" /\ i = Len(expr) - 1
    \/ Cur = "\\" /\ ~state.backslash_present
    \/ Cur \in {".", "?", "*", "+", "{"} /\ Unescaped
    \/ Cur = "}" /\ Unescaped /\ state.interval_expr_parsing_in_progress

\* _ => ...
OtherByte ==
    /\ Scanning
    /\ ~TakenByAnArm
    /\ Step([state EXCEPT !.literal_string_in_progress = TRUE,
                          !.literal_string =
                              Append(IF ~state.literal_string_in_progress THEN <<>> ELSE @,
                                     Cur)],
            IF ~state.literal_string_in_progress
            THEN create_literal_regex(regex_builder, state.literal_string)
            ELSE regex_builder)

\* the loop ends: Ok(regex_builder.build())
Build ==
    /\ pc = "scan"
    /\ i = Len(expr)
    /\ pc' = "done"
    /\ UNCHANGED <<lc_all, lc_ctype, expr, i, state, regex_builder, abort, data, start, result, nodeVars, globVars, poolVars, mainVars>>

\* RegexBuilder::build: the Regex that parse_regex returns, whose one field is
\* the node list; the ParseState is a local of parse_regex and is dropped
build(list) == [expr_list |-> list]

\* regex.evaluate(data, start, &mut MatchState{}) on the compiled Regex
Evaluate(d, s) ==
    /\ pc = "done"
    /\ s <= Len(d)
    /\ data' = d
    /\ start' = s
    /\ result' = RegexEvaluate(build(regex_builder).expr_list, d, s)
    /\ pc' = "evaluated"
    /\ UNCHANGED <<lc_all, lc_ctype, expr, i, state, regex_builder, abort, nodeVars, globVars, poolVars, mainVars>>

\* evaluate called on some subject at some offset of it
CallEvaluate == pc = "done" /\ \E in \in EvalInputs : Evaluate(in[1], in[2])

(***************************************************************************)
(* Spec: one call of parse_regex on a pattern, then one evaluation of the  *)
(* Regex it returned.  The tool runs with LC_ALL=C or with no locale set;  *)
(* SpecLocale covers the whole environment.                                *)
(***************************************************************************)
Init ==
    /\ lc_all \in {VarOk("C"), VarNotPresent}
    /\ lc_ctype = VarNotPresent
    /\ pc = "start"
    /\ expr = <<>>
    /\ i = 0
    /\ state = DefaultParseState
    /\ regex_builder = <<>>
    /\ abort = "none"
    /\ data = <<>>
    /\ start = 0
    /\ result = NoResult
    /\ NodeIdle
    /\ GlobIdle
    /\ PoolIdle
    /\ MainIdle

Next ==
    \/ CallParseRegex
    \/ OpenBracket
    \/ CloseBracket
    \/ CaretAnchor
    \/ DollarAnchor
    \/ Backslash
    \/ Dot
    \/ ZeroOrOne
    \/ ZeroOrMore
    \/ OneOrMore
    \/ OpenBrace
    \/ CloseBrace
    \/ OtherByte
    \/ Build
    \/ CallEvaluate

Spec == Init /\ [][Next]_vars

(***************************************************************************)
(* SpecLocale: the locale gate under every environment.                    *)
(***************************************************************************)
InitLocale ==
    /\ lc_all \in LocaleValues
    /\ lc_ctype \in LocaleValues
    /\ pc = "start"
    /\ expr = <<>>
    /\ i = 0
    /\ state = DefaultParseState
    /\ regex_builder = <<>>
    /\ abort = "none"
    /\ data = <<>>
    /\ start = 0
    /\ result = NoResult
    /\ NodeIdle
    /\ GlobIdle
    /\ PoolIdle
    /\ MainIdle

NextLocale == CallParseRegex

SpecLocale == InitLocale /\ [][NextLocale]_vars

(***************************************************************************)
(* SpecLiteral: LiteralRegex::evaluate on its own, as the unit tests call  *)
(* it: a literal, a subject and a start offset within the subject.         *)
(***************************************************************************)
InitLiteral ==
    /\ lc_all = VarOk("C")
    /\ lc_ctype = VarNotPresent
    /\ pc = "literal"
    /\ expr \in SeqsUpTo(DataAlphabet, MaxLitLen)
    /\ data \in SeqsUpTo(DataAlphabet, MaxLitLen)
    /\ start \in 0..Len(data)
    /\ i = 0
    /\ state = DefaultParseState
    /\ regex_builder = <<>>
    /\ abort = "none"
    /\ result = NoResult
    /\ NodeIdle
    /\ GlobIdle
    /\ PoolIdle
    /\ MainIdle

LiteralCall ==
    /\ pc = "literal"
    /\ result' = LiteralEvaluate(LiteralRegex(expr).regex, data, start)
    /\ pc' = "literal_done"
    /\ UNCHANGED <<lc_all, lc_ctype, expr, i, state, regex_builder, abort, data, start,
                   nodeVars, globVars, poolVars, mainVars>>

NextLiteral == LiteralCall

SpecLiteral == InitLiteral /\ [][NextLiteral]_vars

(***************************************************************************)
(* SpecNode: one node's evaluate called on its own, on a subject and a     *)
(* start offset within it.  The loops of the node called run one iteration *)
(* per step; each call of the child's evaluate is a single evaluation.     *)
(***************************************************************************)
\* most iterations an interval of the node-level model asks for
MaxCount == 2

\* the loop-free nodes
Leaves ==
    {LiteralRegex(l) : l \in SeqsUpTo(DataAlphabet, 1)}
        \cup {LiteralRegex(<<"a", "a">>), CharClassRegex(<<"[", "a", "]">>), DotRegex}

\* IntervalRegex::new(re, atleast, atmost) for the bounds {n}, {n,} and {n,m}
Intervals(S) ==
    {IntervalRegex(n, lo, hi) : n \in S, lo \in 0..MaxCount, hi \in (0..MaxCount) \cup {UsizeMax}}

\* one quantifier or interval around a node of S
Wrapped(S) ==
    {ZeroOrOneRegex(n) : n \in S} \cup {ZeroOrMoreRegex(n) : n \in S}
        \cup {OneOrMoreRegex(n) : n \in S} \cup Intervals(S)

\* the nodes called: a leaf under at most two quantifiers or intervals
Nodes == Leaves \cup Wrapped(Leaves) \cup Wrapped(Wrapped(Leaves))

\* the subjects and start offsets they are called on
NodeInputs ==
    {<<d, s>> : d \in SeqsUpTo(DataAlphabet, MaxDataLen), s \in 0..MaxDataLen}
        \cup {<<<<"a", "a", "a">>, 0>>}

\* what the node-level steps leave alone
parseVars == <<lc_all, lc_ctype, expr, i, state, regex_builder, abort>>
callVars == <<data, start, self, calls>>

InitNode ==
    /\ lc_all = VarOk("C")
    /\ lc_ctype = VarNotPresent
    /\ pc = "node"
    /\ expr = <<>>
    /\ i = 0
    /\ state = DefaultParseState
    /\ regex_builder = <<>>
    /\ abort = "none"
    /\ self \in Nodes
    /\ \E in \in NodeInputs : data = in[1] /\ start = in[2] /\ in[2] <= Len(in[1])
    /\ result = NoResult
    /\ locals = NoLocals
    /\ calls = <<>>
    /\ GlobIdle
    /\ PoolIdle
    /\ MainIdle

\* `return r` (or the `?` handing on the child's failure)
Return(r) ==
    /\ result' = r
    /\ pc' = "node_done"
    /\ UNCHANGED <<parseVars, callVars, locals, globVars, poolVars, mainVars>>

\* the loop goes round with the new locals
GoOn(l) ==
    /\ locals' = l
    /\ UNCHANGED <<parseVars, callVars, pc, result, globVars, poolVars, mainVars>>

\* LiteralRegex::evaluate
LiteralNode ==
    /\ pc = "node"
    /\ self.kind = "Literal"
    /\ Return(LiteralEvaluate(self.regex, data, start))

\* CharClassRegex::evaluate, DotRegex::evaluate
TodoNode ==
    /\ pc = "node"
    /\ self.kind \in {"CharClass", "Dot"}
    /\ Return(IF self.kind = "Dot" THEN DotEvaluate(data, start)
              ELSE CharClassEvaluate(self, data, start))

\* ZeroOrOneRegex::evaluate
ZeroOrOneNode ==
    /\ pc = "node"
    /\ self.kind = "ZeroOrOne"
    /\ Return(OrZero(NodeEvaluate(self.regex, data, start)))

\* ZeroOrMoreRegex::evaluate: let mut count = 0
ZeroOrMoreEnter ==
    /\ pc = "node"
    /\ self.kind = "ZeroOrMore"
    /\ pc' = "repeat_loop"
    /\ locals' = [locals EXCEPT !.count = 0]
    /\ UNCHANGED <<parseVars, callVars, result, globVars, poolVars, mainVars>>

\* OneOrMoreRegex::evaluate: the child's first match, which must succeed
OneOrMoreEnter ==
    /\ pc = "node"
    /\ self.kind = "OneOrMore"
    /\ LET step_count == NodeEvaluate(self.regex, data, start)
       IN  IF step_count.tag # "Ok"
           THEN Return(step_count)
           ELSE /\ pc' = "repeat_loop"
                /\ locals' = [locals EXCEPT !.count = step_count.len]
                /\ UNCHANGED <<parseVars, callVars, result, globVars, poolVars, mainVars>>

\* a loop that returns after its first iteration, whatever the child matched
RepeatIterateOnce ==
    /\ pc = "repeat_loop"
    /\ start + locals.count < Len(data)
    /\ LET step_count == OrZero(NodeEvaluate(self.regex, data, start + locals.count))
       IN  IF step_count.tag = "Panic" THEN Return(Panic)
           ELSE Return(Ok(locals.count + step_count.len))

\* one iteration of `while start + count < data.len()` in ZeroOrMoreRegex and
\* OneOrMoreRegex
RepeatIterate ==
    /\ pc = "repeat_loop"
    /\ start + locals.count < Len(data)
    /\ LET step_count == OrZero(NodeEvaluate(self.regex, data, start + locals.count))
       IN  IF step_count.tag = "Panic" THEN Return(Panic)
           ELSE IF step_count.len = 0 THEN Return(Ok(locals.count))
           ELSE GoOn([locals EXCEPT !.count = @ + step_count.len])

\* that loop's condition failing: return Ok(count)
RepeatExit ==
    /\ pc = "repeat_loop"
    /\ ~(start + locals.count < Len(data))
    /\ Return(Ok(locals.count))

\* IntervalRegex::evaluate: i, atleast and atmost start at 0
IntervalEnter ==
    /\ pc = "node"
    /\ self.kind = "Interval"
    /\ pc' = "atleast_loop"
    /\ locals' = NoLocals
    /\ UNCHANGED <<parseVars, callVars, result, globVars, poolVars, mainVars>>

\* one iteration of IntervalRegex::evaluate's first loop
AtLeastIterate ==
    /\ pc = "atleast_loop"
    /\ start + locals.count < Len(data) /\ locals.atleast < self.atleast
    /\ LET step_count == NodeEvaluate(self.regex, data, start + locals.count)
       IN  IF step_count.tag # "Ok" THEN Return(step_count)
           ELSE GoOn([locals EXCEPT !.count = @ + step_count.len, !.atleast = @ + 1])

\* the first loop's condition failing: on to the second loop
AtLeastExit ==
    /\ pc = "atleast_loop"
    /\ ~(start + locals.count < Len(data) /\ locals.atleast < self.atleast)
    /\ pc' = "atmost_loop"
    /\ UNCHANGED <<parseVars, callVars, locals, result, globVars, poolVars, mainVars>>

\* the second loop asking the child again after a zero-length attempt
AtMostIterateOnZero ==
    /\ pc = "atmost_loop"
    /\ start + locals.count < Len(data) /\ locals.atmost < self.atmost
    /\ LET step_count == OrZero(NodeEvaluate(self.regex, data, start + locals.count))
       IN  IF step_count.tag = "Panic" THEN Return(Panic)
           ELSE GoOn([locals EXCEPT !.count = @ + step_count.len, !.atmost = @ + 1])

\* one iteration of IntervalRegex::evaluate's second loop
AtMostIterate ==
    /\ pc = "atmost_loop"
    /\ start + locals.count < Len(data) /\ locals.atmost < self.atmost
    /\ LET step_count == OrZero(NodeEvaluate(self.regex, data, start + locals.count))
       IN  IF step_count.tag = "Panic" THEN Return(Panic)
           ELSE IF step_count.len = 0 THEN Return(Ok(locals.count))
           ELSE GoOn([locals EXCEPT !.count = @ + step_count.len, !.atmost = @ + 1])

\* the second loop's condition failing: return Ok(i)
AtMostExit ==
    /\ pc = "atmost_loop"
    /\ ~(start + locals.count < Len(data) /\ locals.atmost < self.atmost)
    /\ Return(Ok(locals.count))

NextNode ==
    \/ LiteralNode
    \/ TodoNode
    \/ ZeroOrOneNode
    \/ ZeroOrMoreEnter
    \/ OneOrMoreEnter
    \/ RepeatIterate
    \/ RepeatExit
    \/ IntervalEnter
    \/ AtLeastIterate
    \/ AtLeastExit
    \/ AtMostIterate
    \/ AtMostExit

\* the call runs on: no step of it is put off for ever
SpecNode == InitNode /\ [][NextNode]_vars /\ WF_vars(NextNode)

(***************************************************************************)
(* SpecShared: several calls of Regex::evaluate at once on one Regex, each *)
(* through `&self` with its own subject, start offset and locals.  A step  *)
(* is one iteration of the call's for loop; the steps of the calls         *)
(* interleave freely.                                                      *)
(***************************************************************************)
\* the threads evaluating
Evaluators == {"t1", "t2"}

\* the nodes of the shared Regex: the leaves, and a quantifier or an interval
\* around the literal a
SharedNodes == Leaves \cup Wrapped({LiteralRegex(<<"a">>)})

\* the shared Regex: an expr_list of one or two nodes
SharedRegexes == {<<n>> : n \in SharedNodes} \cup {<<n, m>> : n \in SharedNodes, m \in SharedNodes}

\* the subjects and start offsets of the calls
SharedInputs == {in \in NodeInputs : in[2] <= Len(in[1]) /\ \A k \in 1..Len(in[1]) : in[1][k] = "a"}

\* a call at its entry: let mut i = 0, the iterator before the first node
Entered(d, s) ==
    [data |-> d, begin |-> s, i |-> 0, next |-> 1, status |-> "running", result |-> NoResult]

InitShared ==
    /\ lc_all = VarOk("C")
    /\ lc_ctype = VarNotPresent
    /\ pc = "shared"
    /\ expr = <<>>
    /\ i = 0
    /\ state = DefaultParseState
    /\ regex_builder \in SharedRegexes
    /\ abort = "none"
    /\ data = <<>>
    /\ start = 0
    /\ result = NoResult
    /\ self = NoNode
    /\ locals = NoLocals
    /\ calls \in [Evaluators -> {Entered(in[1], in[2]) : in \in SharedInputs}]
    /\ GlobIdle
    /\ PoolIdle
    /\ MainIdle

\* the call of t returns r
Returned(t, r) == [calls EXCEPT ![t].status = "returned", ![t].result = r]

\* a for loop that takes each node out of the list it walks
EvaluateStepDraining(t) ==
    LET c == calls[t]
    IN  /\ pc = "shared"
        /\ c.status = "running"
        /\ IF regex_builder = <<>>
           THEN calls' = Returned(t, Ok(c.i)) /\ UNCHANGED regex_builder
           ELSE IF c.begin + c.i >= Len(c.data)
           THEN calls' = Returned(t, Err) /\ UNCHANGED regex_builder
           ELSE LET r == NodeEvaluate(regex_builder[1], c.data, c.begin + c.i)
                IN  /\ regex_builder' = Tail(regex_builder)
                    /\ calls' = IF r.tag # "Ok" THEN Returned(t, r)
                                ELSE [calls EXCEPT ![t].i = @ + r.len]
        /\ UNCHANGED <<lc_all, lc_ctype, pc, expr, i, state, abort, data, start, result,
                       self, locals, globVars, poolVars, mainVars>>

\* a for loop that hands every node the offset the call began at
EvaluateStepFromBegin(t) ==
    LET c == calls[t]
    IN  /\ pc = "shared"
        /\ c.status = "running"
        /\ calls' =
               IF c.next > Len(regex_builder) THEN Returned(t, Ok(c.i))
               ELSE IF c.begin + c.i >= Len(c.data) THEN Returned(t, Err)
               ELSE LET r == NodeEvaluate(regex_builder[c.next], c.data, c.begin)
                    IN  IF r.tag # "Ok" THEN Returned(t, r)
                        ELSE [calls EXCEPT ![t].i = @ + r.len, ![t].next = @ + 1]
        /\ UNCHANGED <<lc_all, lc_ctype, pc, expr, i, state, regex_builder, abort, data,
                       start, result, self, locals, globVars, poolVars, mainVars>>

\* one iteration of `for expr in self.expr_list.iter()` in the call of t, or
\* the `return Ok(i)` after the last one
EvaluateStep(t) ==
    LET c == calls[t]
    IN  /\ pc = "shared"
        /\ c.status = "running"
        /\ calls' =
               IF c.next > Len(regex_builder) THEN Returned(t, Ok(c.i))
               ELSE IF c.begin + c.i >= Len(c.data) THEN Returned(t, Err)
               ELSE LET r == NodeEvaluate(regex_builder[c.next], c.data, c.begin + c.i)
                    IN  IF r.tag # "Ok" THEN Returned(t, r)
                        ELSE [calls EXCEPT ![t].i = @ + r.len, ![t].next = @ + 1]
        /\ UNCHANGED <<lc_all, lc_ctype, pc, expr, i, state, regex_builder, abort, data,
                       start, result, self, locals, globVars, poolVars, mainVars>>

\* some thread takes its next step
SharedStep == \E t \in Evaluators : EvaluateStep(t)

NextShared == SharedStep

SpecShared == InitShared /\ [][NextShared]_vars

(***************************************************************************)
(* The glob matcher (src/src/glob.rs).  A path is the sequence of its      *)
(* components as Path::iter() yields them; a component is the sequence of  *)
(* its chars.                                                              *)
(***************************************************************************)
\* the component "**"
StarStar == <<"*", "*">>

\* str::contains('*')
ContainsStar(c) == \E k \in 1..Len(c) : c[k] = "*"

\* is_file_pattern_match, the first loop from (i, j) on: where it stopped,
\* the star_pos it left, and whether it returned false
RECURSIVE ForwardLoop(_, _, _, _)
ForwardLoop(pat_leaf, pth_leaf, m, n) ==
    IF m < Len(pat_leaf) /\ n < Len(pth_leaf)
    THEN IF pat_leaf[m + 1] = "*"
         THEN [i |-> m, j |-> n, star_pos |-> m, returned_false |-> FALSE]
         ELSE IF pat_leaf[m + 1] # pth_leaf[n + 1]
              THEN [i |-> m, j |-> n, star_pos |-> Len(pat_leaf), returned_false |-> TRUE]
              ELSE ForwardLoop(pat_leaf, pth_leaf, m + 1, n + 1)
    ELSE [i |-> m, j |-> n, star_pos |-> Len(pat_leaf), returned_false |-> FALSE]

\* is_file_pattern_match, the second loop from (i, j) on and the test after it
RECURSIVE BackwardLoop(_, _, _, _, _)
BackwardLoop(pat_leaf, pth_leaf, m, n, star_pos) ==
    IF m > star_pos /\ n > 0
    THEN IF pat_leaf[m + 1] # pth_leaf[n + 1]
         THEN FALSE
         ELSE BackwardLoop(pat_leaf, pth_leaf, m - 1, n - 1, star_pos)
    ELSE ~(m > star_pos /\ n = 0 /\ pat_leaf[m + 1] # pth_leaf[n + 1])

\* Glob::is_file_pattern_match(pattern, leafname), both non-empty
is_file_pattern_match(pat_leaf, pth_leaf) ==
    LET fwd == ForwardLoop(pat_leaf, pth_leaf, 0, 0)
    IN  IF fwd.returned_false THEN FALSE
        ELSE IF fwd.i = Len(pat_leaf) /\ fwd.j = Len(pth_leaf) THEN TRUE
        ELSE BackwardLoop(pat_leaf, pth_leaf, Len(pat_leaf) - 1, Len(pth_leaf) - 1,
                          fwd.star_pos)

RECURSIVE is_match_loop(_, _, _, _)

\* the arm for a path with components left after q, where a pattern that
\* ends in "**" is taken to cover a single component
MorePathComponentsOneLevel(pat, pth, a, b) ==
    LET p == pat[a + 1]
        q == pth[b + 1]
    IN  IF a + 1 < Len(pat)
        THEN IF p # StarStar /\ p # q THEN FALSE ELSE is_match_loop(pat, pth, a + 1, b + 1)
        ELSE FALSE

\* is_match's arm (Some(p), Some(q)) when pth_iter.peek().is_some(): the path
\* has components left after q
MorePathComponents(pat, pth, a, b) ==
    LET p == pat[a + 1]
        q == pth[b + 1]
    IN  IF a + 1 < Len(pat)
        THEN IF p # StarStar /\ p # q THEN FALSE ELSE is_match_loop(pat, pth, a + 1, b + 1)
        ELSE p = StarStar

\* the arm for the path's last component, where a "**" with pattern
\* components after it must take a directory
LastPathComponentNoSkip(pat, pth, a, b) ==
    LET p == pat[a + 1]
        q == pth[b + 1]
    IN  IF a + 1 < Len(pat) THEN FALSE
        ELSE IF p = StarStar THEN TRUE
        ELSE IF ContainsStar(p) THEN is_file_pattern_match(p, q)
        ELSE p = q

\* is_match's arm (Some(p), Some(q)) when q is the path's last component
LastPathComponent(pat, pth, a, b) ==
    LET p == pat[a + 1]
        q == pth[b + 1]
    IN  IF a + 1 < Len(pat)
        THEN IF p = StarStar
             THEN LET next == pat[a + 2]
                  IN  IF ContainsStar(next) THEN is_file_pattern_match(next, q)
                      ELSE next = q
             ELSE FALSE
        ELSE IF p = StarStar THEN TRUE
        ELSE IF ContainsStar(p) THEN is_file_pattern_match(p, q)
        ELSE p = q

\* is_match's loop with a pattern components and b path components taken
is_match_loop(pat, pth, a, b) ==
    IF a < Len(pat) /\ b < Len(pth)
    THEN IF b + 1 < Len(pth)
         THEN MorePathComponents(pat, pth, a, b)
         ELSE LastPathComponent(pat, pth, a, b)
    ELSE IF a >= Len(pat) /\ b >= Len(pth) THEN TRUE
    ELSE IF a < Len(pat) /\ b >= Len(pth) /\ pat[a + 1] = StarStar THEN TRUE
    ELSE FALSE

\* Glob::is_match(&self, filename)
is_match(glob_pattern, path) == is_match_loop(glob_pattern, path, 0, 0)

(***************************************************************************)
(* SpecGlob: one call of Glob::new(pattern).is_match(filename).            *)
(***************************************************************************)
\* most components of a pattern or of a path
MaxDepth == 3

\* file and directory names
Names == {<<"a">>, <<"b">>, <<"a", "b">>}

\* components with one '*'
StarNames == {<<"*">>, <<"*", "b">>, <<"a", "*">>, <<"*", "a", "b">>, <<"a", "*", "b">>}

PatternComponents == Names \cup StarNames \cup {StarStar}

GlobPatterns == SeqsUpTo(PatternComponents, MaxDepth)

GlobPaths == SeqsUpTo(Names, MaxDepth)

InitGlob ==
    /\ lc_all = VarOk("C")
    /\ lc_ctype = VarNotPresent
    /\ pc = "glob"
    /\ expr = <<>>
    /\ i = 0
    /\ state = DefaultParseState
    /\ regex_builder = <<>>
    /\ abort = "none"
    /\ data = <<>>
    /\ start = 0
    /\ result = NoResult
    /\ NodeIdle
    /\ pattern \in GlobPatterns
    /\ filename \in GlobPaths
    /\ matched = "none"
    /\ PoolIdle
    /\ MainIdle

\* Glob::new(&pattern).is_match(&filename)
IsMatch ==
    /\ pc = "glob"
    /\ matched' = is_match(pattern, filename)
    /\ pc' = "glob_done"
    /\ UNCHANGED <<parseVars, data, start, result, nodeVars, pattern, filename, poolVars, mainVars>>

NextGlob == IsMatch

SpecGlob == InitGlob /\ [][NextGlob]_vars

(***************************************************************************)
(* The thread pool (src/src/thread_pool.rs).  A job is the number of the   *)
(* execute call that handed it over; a worker's JoinHandle is the job its  *)
(* thread runs.  The manager holds the workers, queue and count mutexes    *)
(* for the whole of a pass, so a pass is one step; in the drain after quit *)
(* it blocks in h.join(), so the drain is one step per join.               *)
(***************************************************************************)
\* jobs handed to execute
MaxJobs == 3
\* largest count passed to ThreadPool::new
MaxThreads == 2

\* Vec::swap_remove(k), k counted from 1
SwapRemove(w, k) == IF k = Len(w) THEN Front(w) ELSE [Front(w) EXCEPT ![k] = Last(w)]

\* the `while i < w.len()` loop from index k on: finished workers are removed
RECURSIVE Reap(_, _, _)
Reap(w, k, fin) ==
    IF k > Len(w) THEN w
    ELSE IF w[k] \in fin THEN Reap(SwapRemove(w, k), k, fin)
    ELSE Reap(w, k + 1, fin)

\* the first n elements of q, and what is left of q after n pop_front calls
Taken(q, n) == SubSeq(q, 1, n)
Left(q, n) == SubSeq(q, n + 1, Len(q))

\* ThreadPool::new(count): the fields, with the manager thread spawned
InitPool ==
    /\ lc_all = VarOk("C")
    /\ lc_ctype = VarNotPresent
    /\ pc = "pool"
    /\ expr = <<>>
    /\ i = 0
    /\ state = DefaultParseState
    /\ regex_builder = <<>>
    /\ abort = "none"
    /\ data = <<>>
    /\ start = 0
    /\ result = NoResult
    /\ NodeIdle
    /\ GlobIdle
    /\ \E c \in 1..MaxThreads : pool = [NoPool EXCEPT !.count = c]
    /\ manager = "loop"
    /\ caller = "running"
    /\ jobs = NoJobs
    /\ MainIdle

\* what the pool's steps leave alone
otherVars == <<parseVars, data, start, result, nodeVars, globVars, mainVars, pc>>

\* thread::spawn(job) for each job of the sequence, in order
Spawned(js) == [jobs EXCEPT !.started = @ \o js]

\* ThreadPool::execute(f): push_back under the queue's lock; the lock is
\* poisoned once the manager has panicked holding it, and expect() panics
Execute ==
    /\ caller = "running"
    /\ Len(jobs.handed) < MaxJobs
    /\ LET f == Len(jobs.handed) + 1
       IN  /\ jobs' = [jobs EXCEPT !.handed = Append(@, f)]
           /\ IF manager = "panicked"
              THEN caller' = "panicked" /\ UNCHANGED pool
              ELSE pool' = [pool EXCEPT !.queue = Append(@, f)] /\ UNCHANGED caller
    /\ UNCHANGED <<manager, otherVars>>

\* ThreadPool::join(self): set quit and return; self, the manager's JoinHandle
\* included, is dropped
Join ==
    /\ caller = "running"
    /\ pool' = [pool EXCEPT !.quit = TRUE]
    /\ caller' = "joined"
    /\ UNCHANGED <<manager, jobs, otherVars>>

\* main returns after pool.join(), or unwinds after a panic: the process
\* exits and every other thread ends with it
ProcessExit ==
    /\ caller \in {"joined", "panicked"}
    /\ caller' = "exited"
    /\ UNCHANGED <<pool, manager, jobs, otherVars>>

\* a started job's closure returns
JobFinish ==
    /\ caller # "exited"
    /\ \E f \in 1..Len(jobs.started) :
          /\ jobs.started[f] \notin jobs.finished
          /\ jobs' = [jobs EXCEPT !.finished = @ \cup {jobs.started[f]}]
    /\ UNCHANGED <<pool, manager, caller, otherVars>>

\* one pass of the manager's outer loop: reap the finished workers, start
\* free_count jobs, read quit
ManagerPass ==
    /\ caller # "exited"
    /\ manager = "loop"
    /\ LET w == Reap(pool.workers, 1, jobs.finished)
           q == pool.queue
           c == pool.count
           free_count == c - Len(w)
       IN  IF Len(q) > 0 /\ Len(w) < c
           THEN IF free_count > Len(q)
                THEN \* q.pop_front().unwrap() on the emptied queue
                     /\ pool' = [pool EXCEPT !.workers = w \o q, !.queue = <<>>]
                     /\ jobs' = Spawned(q)
                     /\ manager' = "panicked"
                ELSE /\ pool' = [pool EXCEPT !.workers = w \o Taken(q, free_count),
                                             !.queue = Left(q, free_count)]
                     /\ jobs' = Spawned(Taken(q, free_count))
                     /\ manager' = IF pool.quit THEN "drain" ELSE "loop"
           ELSE /\ pool' = [pool EXCEPT !.workers = w]
                /\ jobs' = jobs
                /\ manager' = IF pool.quit THEN "drain" ELSE "loop"
    /\ UNCHANGED <<caller, otherVars>>

\* the drain after quit: `let h = w.pop().unwrap(); h.join();`, which returns
\* once that worker's thread has finished
DrainJoin ==
    /\ caller # "exited"
    /\ manager = "drain"
    /\ Len(pool.workers) > 0
    /\ Last(pool.workers) \in jobs.finished
    /\ pool' = [pool EXCEPT !.workers = Front(@)]
    /\ UNCHANGED <<manager, caller, jobs, otherVars>>

\* a drain that starts every queued job at once
DrainSpawnWholeQueue ==
    /\ caller # "exited"
    /\ manager = "drain"
    /\ Len(pool.workers) = 0
    /\ Len(pool.queue) # 0
    /\ pool' = [pool EXCEPT !.workers = pool.queue, !.queue = <<>>]
    /\ jobs' = Spawned(pool.queue)
    /\ UNCHANGED <<manager, caller, otherVars>>

\* the drain with no worker left: `for _ in 0..q.len().min(*c)`
DrainSpawn ==
    /\ caller # "exited"
    /\ manager = "drain"
    /\ Len(pool.workers) = 0
    /\ Len(pool.queue) # 0
    /\ LET n == IF Len(pool.queue) < pool.count THEN Len(pool.queue) ELSE pool.count
       IN  /\ pool' = [pool EXCEPT !.workers = Taken(pool.queue, n),
                                   !.queue = Left(pool.queue, n)]
           /\ jobs' = Spawned(Taken(pool.queue, n))
    /\ UNCHANGED <<manager, caller, otherVars>>

\* the drain with no worker and no job left: both loops break
DrainBreak ==
    /\ caller # "exited"
    /\ manager = "drain"
    /\ Len(pool.workers) = 0
    /\ Len(pool.queue) = 0
    /\ manager' = "returned"
    /\ UNCHANGED <<pool, caller, jobs, otherVars>>

NextPool ==
    \/ Execute
    \/ Join
    \/ ProcessExit
    \/ JobFinish
    \/ ManagerPass
    \/ DrainJoin
    \/ DrainSpawn
    \/ DrainBreak

SpecPool == InitPool /\ [][NextPool]_vars

(***************************************************************************)
(* divide_files_by_workers (src/src/main.rs).  A path is its position in   *)
(* the argument list together with what fs::metadata reports for it.       *)
(***************************************************************************)
\* longest list of paths
MaxFiles == 5
\* largest n_workers; main passes 4
MaxNWorkers == 4

\* fs::metadata(file): Ok with is_dir() true or false, or Err
MetadataKinds == {"dir", "file", "missing"}

\* the lists of paths handed over
PathLists ==
    UNION {{[k \in 1..n |-> [name |-> k, kind |-> kinds[k]]] : kinds \in [1..n -> MetadataKinds]}
              : n \in 0..MaxFiles}

\* `as i32` operands divided with `/`: the quotient is truncated toward zero
TruncDiv(a, b) == IF a >= 0 THEN a \div b ELSE -((-a) \div b)

IsDir(f) == f.kind = "dir"
IsNotDir(f) == f.kind # "dir"

\* the returned Vec<Vec<String>>
Divided(js) == [tag |-> "Ok", jobs |-> js]

\* `for i in 0..n_workers` from index k on, with the jobs collected so far
RECURSIVE ChunkLoop(_, _, _, _, _)
ChunkLoop(collected_dirs, per_job, n, k, res) ==
    IF k >= n THEN res
    ELSE LET from == (per_job + 1) * k
             to == from + (per_job + 1)
         IN  IF to > Len(collected_dirs) THEN res
             ELSE ChunkLoop(collected_dirs, per_job, n, k + 1,
                            Append(res, SubSeq(collected_dirs, from + 1, to)))

\* divide_files_by_workers(files, n_workers); fs::metadata(file).unwrap()
\* panics on a path that cannot be read
divide_files_by_workers(fs, nw) ==
    IF \E k \in 1..Len(fs) : fs[k].kind = "missing" THEN Panic
    ELSE LET collected_files == SelectSeq(fs, IsNotDir)
             collected_dirs == SelectSeq(fs, IsDir)
             n == nw - 1
             per_job == TruncDiv(Len(collected_dirs) - 1, n)
         IN  IF per_job < 0 THEN Divided(<<collected_files>>)
             ELSE Divided(ChunkLoop(collected_dirs, per_job, n, 0, <<collected_files>>))

InitDivide ==
    /\ lc_all = VarOk("C")
    /\ lc_ctype = VarNotPresent
    /\ pc = "divide"
    /\ expr = <<>>
    /\ i = 0
    /\ state = DefaultParseState
    /\ regex_builder = <<>>
    /\ abort = "none"
    /\ data = <<>>
    /\ start = 0
    /\ result = NoResult
    /\ NodeIdle
    /\ GlobIdle
    /\ PoolIdle
    /\ files \in PathLists
    /\ n_workers \in 2..MaxNWorkers

\* let jobs = divide_files_by_workers(args.file.clone(), n_workers)
Divide ==
    /\ pc = "divide"
    /\ result' = divide_files_by_workers(files, n_workers)
    /\ pc' = "divide_done"
    /\ UNCHANGED <<parseVars, data, start, nodeVars, globVars, poolVars, mainVars>>

NextDivide == Divide

SpecDivide == InitDivide /\ [][NextDivide]_vars

(***************************************************************************)
(* Properties.                                                             *)
(***************************************************************************)
\* p holds no byte that parse_regex gives a meaning to
IsOrdinary(p) == \A k \in 1..Len(p) : p[k] \notin SpecialBytes

\* d begins with p
BeginsWith(d, p) == Len(p) <= Len(d) /\ SubSeq(d, 1, Len(p)) = p

\* the bytes d[s .. s+len(p)) exist and equal p
OccursAt(d, s, p) == s + Len(p) <= Len(d) /\ SubSeq(d, s + 1, s + Len(p)) = p

\* C1: the Regex compiled from a pattern of ordinary bytes only, evaluated at
\* offset 0, returns the pattern's length when the subject begins with the
\* pattern and no-match otherwise.
C1_OrdinaryPatternMatchesItself ==
    (pc = "evaluated" /\ IsOrdinary(expr) /\ start = 0)
        => result = IF BeginsWith(data, expr) THEN Ok(Len(expr)) ELSE Err

\* C2: for a pattern made of a run L of ordinary bytes followed by {0,1},
\* evaluation at offset 0 against a subject that begins with L returns len(L).
C2_IntervalZeroOneReturnsLiteralLength ==
    LET n == Len(expr) - 5
        L == SubSeq(expr, 1, n)
    IN  (pc = "evaluated" /\ start = 0 /\ n >= 1
         /\ SubSeq(expr, n + 1, Len(expr)) = <<"{", "0", ",", "1", "}">>
         /\ IsOrdinary(L) /\ BeginsWith(data, L))
            => result = Ok(n)

\* C3: LiteralRegex::evaluate returns Ok(len(literal)) exactly when the bytes
\* data[start .. start+len(literal)) exist and equal the literal, and Err
\* otherwise.
C3_LiteralEvaluate ==
    pc = "literal_done"
        => /\ result = Ok(Len(expr)) <=> OccursAt(data, start, expr)
           /\ result = Err <=> ~OccursAt(data, start, expr)

\* C3 witness: a literal of two or more bytes found at a start offset past 0
C3_Witness ==
    /\ pc = "literal_done"
    /\ Len(expr) >= 2
    /\ start >= 1
    /\ result = Ok(Len(expr))

\* bodies of a terminated {...} that are no interval
InvalidIntervalBodies == {<<>>, <<"x">>, <<"a">>, <<",">>}

\* C4: under the C locale a pattern a{B} with B no valid interval compiles
\* without error, and its Regex matches the text a{B} verbatim: evaluated at offset 0 it returns the
\* pattern's length when the subject begins with the pattern, no-match otherwise.
C4_MalformedIntervalIsLiteral ==
    \A b \in InvalidIntervalBodies :
        (is_locale_c(lc_all, lc_ctype) /\ expr = <<"a", "{">> \o b \o <<"}">>)
            => /\ pc \notin {"err", "panic"}
               /\ (pc = "evaluated" /\ start = 0)
                      => result = IF BeginsWith(data, expr) THEN Ok(Len(expr)) ELSE Err

\* C5: a ']' right after the '[' that opened a bracket expression leaves the
\* expression open and appends no node; the pattern []a] compiles, with the
\* expression closed and a character-class node made of the whole slice []a].
C5_FirstCloseBracketIsMember ==
    /\ [](pc = "done" /\ expr = <<"[", "]", "a", "]">>
            => /\ ~state.character_class_parsing_in_progress
               /\ \E k \in 1..Len(regex_builder) :
                      /\ regex_builder[k].kind = "CharClass"
                      /\ regex_builder[k].regex = expr)
    /\ [][(/\ Scanning
           /\ Cur = "]"
           /\ state.character_class_parsing_in_progress
           /\ state.stack # <<>>
           /\ Last(state.stack) = i - 1
           /\ expr[i] = "[")
              => /\ pc' = "scan"
                 /\ state'.character_class_parsing_in_progress
                 /\ regex_builder' = regex_builder]_vars

\* C5 witness: []a] parsed to the end, its character class in the Regex
C5_Witness ==
    /\ pc = "done"
    /\ expr = <<"[", "]", "a", "]">>
    /\ ~state.character_class_parsing_in_progress
    /\ regex_builder[Len(regex_builder)] = CharClassRegex(expr)

\* the scan took the pattern's last byte as an escape
PendingEscape ==
    /\ Len(expr) > 0
    /\ expr[Len(expr)] = "\\"
    /\ \A k \in 1..(Len(expr) - 1) : expr[k] # "\\"

\* C6: a scan that ends inside a bracket expression, inside an interval
\* expression, with an opener still on the stack or with a pending escape
\* does not return a Regex.
C6_UnterminatedIsError ==
    pc \in {"done", "evaluated"}
        => /\ ~state.character_class_parsing_in_progress
           /\ ~state.interval_expr_parsing_in_progress
           /\ state.stack = <<>>
           /\ ~PendingEscape

\* C7: evaluate of a Regex that parse_regex returned ends with a matched
\* length or with no-match, never with a panic.
C7_EvaluateNeverAborts ==
    pc = "evaluated" => result.tag \in {"Ok", "Err"}

\* C8: processing a quantifier or a recognized interval never ends in the
\* builder's unreachable!(): there is a node to wrap, or the parse returns Err.
C8_QuantifierHasNodeToWrap ==
    abort \notin {"create_zero_or_one_regex", "create_zero_or_more_regex",
                  "create_one_or_more_regex", "create_interval_expr_regex"}

\* C9: the stack is non-empty at every pop, and the offset popped on a ']' is
\* that of a '[', the offset popped on a '}' that of a '{'.
C9_PopsMatchingOpener ==
    /\ abort \notin {"parse_regex: stack.pop() on ']'", "parse_regex: stack.pop() on '}'"}
    /\ (Scanning /\ Cur = "]" /\ state.character_class_parsing_in_progress)
           => state.stack # <<>> /\ expr[Last(state.stack) + 1] = "["
    /\ (Scanning /\ Cur = "}" /\ Unescaped /\ state.interval_expr_parsing_in_progress)
           => state.stack # <<>> /\ expr[Last(state.stack) + 1] = "{"

\* the effective locale value: LC_ALL if it is set, LC_CTYPE otherwise
EffectiveLocale == IF lc_all.tag # "NotPresent" THEN lc_all ELSE lc_ctype

\* C10: parse_regex passes the gate exactly when the effective locale value
\* is "C"; otherwise it fails, for every pattern, and builds nothing.
C10_LocaleGate ==
    pc # "start"
        => IF EffectiveLocale = VarOk("C")
           THEN pc = "scan"
           ELSE pc = "err" /\ regex_builder = <<>>

\* how many copies of the non-empty literal L stand one after another in d
\* from offset s on
RECURSIVE LongestRun(_, _, _)
LongestRun(L, d, s) ==
    IF OccursAt(d, s, L) THEN 1 + LongestRun(L, d, s + Len(L)) ELSE 0

\* the offset reached once the first k nodes of the list have each been
\* evaluated once, in list order, each from where the one before it stopped
RECURSIVE PrefixEnd(_, _, _, _)
PrefixEnd(expr_list, d, s, k) ==
    IF k = 0 THEN s
    ELSE LET o == PrefixEnd(expr_list, d, s, k - 1)
         IN  o + NodeEvaluate(expr_list[k], d, o).len

\* each of the first k nodes matched in that single pass
RECURSIVE PrefixMatches(_, _, _, _)
PrefixMatches(expr_list, d, s, k) ==
    \/ k = 0
    \/ /\ PrefixMatches(expr_list, d, s, k - 1)
       /\ PrefixEnd(expr_list, d, s, k - 1) < Len(d)
       /\ NodeEvaluate(expr_list[k], d, PrefixEnd(expr_list, d, s, k - 1)).tag = "Ok"

\* a repetition of a non-empty literal
RepeatsLiteral(node) ==
    /\ node.kind \in {"ZeroOrMore", "OneOrMore"}
    /\ node.regex.kind = "Literal"
    /\ node.regex.regex # <<>>

\* C11: evaluation of a Regex is greedy and does not backtrack.  A repetition
\* of a literal consumes the longest run of copies of the literal there is;
\* the Regex matches only if every node matches when evaluated once, in list
\* order, from where the node before it stopped, and reports no-match as soon
\* as one of them fails there; the pattern a*a evaluated at offset 0 against
\* aaa reports no-match.
C11_GreedyWithoutBacktracking ==
    pc = "evaluated"
        => /\ (expr = <<"a", "*", "a">> /\ data = <<"a", "a", "a">> /\ start = 0)
                  => result = Err
           /\ \A k \in 1..Len(regex_builder) : \A s \in 0..Len(data) :
                  LET node == regex_builder[k]
                      run == LongestRun(node.regex.regex, data, s)
                  IN  RepeatsLiteral(node)
                          => NodeEvaluate(node, data, s) =
                                 IF run = 0 /\ node.kind = "OneOrMore"
                                 THEN Err
                                 ELSE Ok(run * Len(node.regex.regex))
           /\ result.tag = "Ok"
                  => /\ PrefixMatches(regex_builder, data, start, Len(regex_builder))
                     /\ result.len =
                            PrefixEnd(regex_builder, data, start, Len(regex_builder)) - start
           /\ \A k \in 1..Len(regex_builder) :
                  LET o == PrefixEnd(regex_builder, data, start, k - 1)
                  IN  (/\ PrefixMatches(regex_builder, data, start, k - 1)
                       /\ o < Len(data)
                       /\ NodeEvaluate(regex_builder[k], data, o) = Err)
                          => result = Err

\* C11 witness: a*a against aaa, where the repetition took all three bytes
\* and the evaluation reported no-match
C11_Witness ==
    /\ pc = "evaluated"
    /\ expr = <<"a", "*", "a">>
    /\ data = <<"a", "a", "a">>
    /\ start = 0
    /\ Len(regex_builder) >= 2
    /\ NodeEvaluate(regex_builder[2], data, 0) = Ok(3)
    /\ result = Err

\* C12: on the empty subject at offset 0 every ZeroOrOne node, every
\* ZeroOrMore node and every Interval node with atleast = 0 returns Ok(0)
\* whatever its child is, and every Literal node with a non-empty literal
\* returns no-match.
C12_EmptySubject ==
    (pc = "node_done" /\ data = <<>> /\ start = 0)
        => /\ (\/ self.kind \in {"ZeroOrOne", "ZeroOrMore"}
               \/ (self.kind = "Interval" /\ self.atleast = 0))
                  => result = Ok(0)
           /\ (self.kind = "Literal" /\ self.regex # <<>>) => result = Err

\* the call is inside one of the repetition loops
InLoop == pc \in {"repeat_loop", "atleast_loop", "atmost_loop"}

\* C13: evaluate terminates.  Every step taken inside a repetition loop
\* either consumes at least one more byte of the subject, or is one of the
\* at most self.atleast iterations the first loop of an interval counts, or
\* leaves the loop; and every call reaches its return.
C13_EvaluateTerminates ==
    /\ [][InLoop
            => \/ pc' # pc
               \/ locals'.count > locals.count /\ start + locals'.count <= Len(data)
               \/ /\ pc = "atleast_loop"
                  /\ locals'.atleast = locals.atleast + 1
                  /\ locals'.atleast <= self.atleast]_vars
    /\ <>(pc = "node_done")

\* C13 witness: an interval without upper bound around a repetition, returned
\* after its second loop went round
C13_Witness ==
    /\ pc = "node_done"
    /\ self.kind = "Interval"
    /\ self.atmost = UsizeMax
    /\ self.regex.kind \in {"ZeroOrMore", "OneOrMore", "Interval"}
    /\ locals.atmost >= 1
    /\ result = Ok(locals.count)

\* C14: a step of an evaluation leaves the Regex and its nodes as they were,
\* and each of the evaluations running at once on the same Regex returns what
\* Regex::evaluate returns for its subject and start offset when run alone.
C14_SharedEvaluation ==
    /\ [][regex_builder' = regex_builder]_vars
    /\ [](\A t \in Evaluators :
              calls[t].status = "returned"
                  => calls[t].result =
                         RegexEvaluate(regex_builder, calls[t].data, calls[t].begin))

\* C14 witness: t1 has returned a match of two nodes while t2, on another
\* subject, is between the two
C14_Witness ==
    /\ pc = "shared"
    /\ Len(regex_builder) = 2
    /\ calls["t1"].status = "returned"
    /\ calls["t1"].result.tag = "Ok"
    /\ calls["t1"].result.len >= 1
    /\ calls["t2"].status = "running"
    /\ calls["t2"].next = 2
    /\ calls["t2"].data # calls["t1"].data

\* the chars of c before its first '*', and those after it
BeforeStar(c) == SubSeq(c, 1, (CHOOSE k \in 1..Len(c) : c[k] = "*" /\ \A m \in 1..(k - 1) : c[m] # "*") - 1)
AfterStar(c) == SubSeq(c, Len(BeforeStar(c)) + 2, Len(c))

\* c holds exactly one '*'
HasOneStar(c) == Cardinality({k \in 1..Len(c) : c[k] = "*"}) = 1

\* name begins with the text before the '*' of c and ends with the text after
\* it, the two not overlapping in name
FitsAroundStar(c, name) ==
    /\ Len(name) >= Len(BeforeStar(c)) + Len(AfterStar(c))
    /\ SubSeq(name, 1, Len(BeforeStar(c))) = BeforeStar(c)
    /\ SubSeq(name, Len(name) - Len(AfterStar(c)) + 1, Len(name)) = AfterStar(c)

\* C15: when the pattern's last component holds one '*' and the directories
\* before it are those of the path, is_match returns true exactly when the
\* file name begins with the text before the '*' and ends with the text after
\* it without the two overlapping; a name shorter than the suffix does not
\* match, a bare '*' matches every name.
C15_OneStarInFileName ==
    (/\ pc = "glob_done"
     /\ pattern # <<>>
     /\ Len(filename) = Len(pattern)
     /\ Front(filename) = Front(pattern)
     /\ HasOneStar(Last(pattern)))
        => matched = FitsAroundStar(Last(pattern), Last(filename))

\* the pattern components other than "**"
NamedComponents(pat) == {k \in 1..Len(pat) : pat[k] # StarStar}

\* C16: is_match returns true only when each pattern component other than
\* "**" had a path component of its own to match: no more such components
\* than the path has components; a last pattern component without '*' equal
\* to the path's last component; and, for a pattern without any '*', the
\* path equal to the pattern.
C16_NoPatternComponentLeftOver ==
    (pc = "glob_done" /\ matched = TRUE)
        => /\ Cardinality(NamedComponents(pattern)) <= Len(filename)
           /\ (pattern # <<>> /\ ~ContainsStar(Last(pattern)))
                  => filename # <<>> /\ Last(filename) = Last(pattern)
           /\ (\A k \in 1..Len(pattern) : ~ContainsStar(pattern[k]))
                  => filename = pattern

\* the pattern holds one "**", at position a, with components after it, and
\* no '*' in a directory component
MiddleStarStarAt(pat, a) ==
    /\ a \in 1..(Len(pat) - 1)
    /\ pat[a] = StarStar
    /\ \A k \in 1..Len(pat) : k # a => pat[k] # StarStar
    /\ \A k \in 1..(Len(pat) - 1) : k # a => ~ContainsStar(pat[k])

\* component c of a pattern describes the path component q
Fits(c, q) == IF HasOneStar(c) THEN FitsAroundStar(c, q) ELSE c = q

\* the path is the pattern with n components of any name in place of the
\* "**" at position a
Taking(pat, pth, a, n) ==
    /\ Len(pth) = Len(pat) - 1 + n
    /\ \A k \in 1..(a - 1) : pat[k] = pth[k]
    /\ \A k \in (a + 1)..Len(pat) : Fits(pat[k], pth[k - 1 + n])

\* C17: a "**" with pattern components after it is worth at most one
\* directory level.  The path matches when exactly one path component stands
\* in its place, and when none does while the "**" is right before the
\* pattern's last component; it does not match when two or more components
\* would have to stand in its place.
C17_StarStarIsOneLevel ==
    \A a \in 1..Len(pattern) :
        (pc = "glob_done" /\ MiddleStarStarAt(pattern, a))
            => /\ Taking(pattern, filename, a, 1) => matched = TRUE
               /\ (Taking(pattern, filename, a, 0) /\ a = Len(pattern) - 1)
                      => matched = TRUE
               /\ (\E n \in 2..Len(filename) : Taking(pattern, filename, a, n))
                      => matched = FALSE

\* C17 witness: **/*b against a/b/ab, where two directories would have to
\* stand for the "**"
C17_Witness ==
    /\ pc = "glob_done"
    /\ pattern = <<StarStar, <<"*", "b">>>>
    /\ filename = <<<<"a">>, <<"b">>, <<"a", "b">>>>
    /\ Taking(pattern, filename, 1, 2)
    /\ matched = FALSE

\* C18: a pattern whose last component is "**" matches every path that
\* begins with the pattern's components before the "**" and has at least one
\* component more, however many and whatever their names.
C18_TrailingStarStar ==
    (/\ pc = "glob_done"
     /\ pattern # <<>>
     /\ Last(pattern) = StarStar
     /\ Len(filename) >= Len(pattern)
     /\ SubSeq(filename, 1, Len(pattern) - 1) = Front(pattern))
        => matched = TRUE

\* C18 witness: a/** against a/b/ab, two levels below a
C18_Witness ==
    /\ pc = "glob_done"
    /\ pattern = <<<<"a">>, StarStar>>
    /\ filename = <<<<"a">>, <<"b">>, <<"a", "b">>>>
    /\ matched = TRUE

\* the child matches n times in a row in d from offset s on, each match
\* starting where the one before it ended
RECURSIVE ConsecutiveMatches(_, _, _, _)
ConsecutiveMatches(child, d, s, n) ==
    \/ n = 0
    \/ LET r == NodeEvaluate(child, d, s)
       IN  r.tag = "Ok" /\ ConsecutiveMatches(child, d, s + r.len, n - 1)

\* no evaluate under the node is a todo!()
RECURSIVE Implemented(_)
Implemented(node) ==
    /\ node.kind \notin {"CharClass", "Dot"}
    /\ node.kind # "Literal" => Implemented(node.regex)

\* C19: an IntervalRegex (over implemented nodes) returns Ok only if its child
\* matched self.atleast times in a row from start on; with fewer matches
\* there, the child failing or the subject ending first, it returns no-match.
C19_IntervalLowerBound ==
    (pc = "node_done" /\ self.kind = "Interval" /\ Implemented(self))
        => \/ ConsecutiveMatches(self.regex, data, start, self.atleast)
           \/ result = Err

\* C20: an IntervalRegex with atleast <= atmost makes at most self.atmost
\* successful child iterations in all, so over a one-byte literal the length
\* it returns is at most self.atmost.
C20_IntervalUpperBound ==
    (/\ pc \in {"atleast_loop", "atmost_loop", "node_done"}
     /\ self.kind = "Interval"
     /\ self.atleast <= self.atmost)
        => /\ locals.atleast + locals.atmost <= self.atmost
           /\ (/\ pc = "node_done"
               /\ result.tag = "Ok"
               /\ self.regex.kind = "Literal"
               /\ Len(self.regex.regex) = 1)
                  => result.len <= self.atmost

\* the offset reached when the first k nodes of the list are matched one
\* after the other from s on, a node being allowed to start at the very end
\* of the subject
RECURSIVE ChainEnd(_, _, _, _)
ChainEnd(expr_list, d, s, k) ==
    IF k = 0 THEN s
    ELSE LET o == ChainEnd(expr_list, d, s, k - 1)
         IN  o + NodeEvaluate(expr_list[k], d, o).len

\* each of the first k nodes matches there
RECURSIVE ChainMatches(_, _, _, _)
ChainMatches(expr_list, d, s, k) ==
    \/ k = 0
    \/ /\ ChainMatches(expr_list, d, s, k - 1)
       /\ NodeEvaluate(expr_list[k], d, ChainEnd(expr_list, d, s, k - 1)).tag = "Ok"

\* C21: a node that accepts a zero-length match may be evaluated at
\* start == data.len(): when every node of the Regex matches where the one
\* before it ended, the nodes left once the subject is used up matching with
\* length 0, Regex::evaluate returns the total length; it fails for lack of
\* subject only when a node left cannot match at the end.
C21_ZeroLengthMatchAtEnd ==
    \A t \in DOMAIN calls :
        (/\ calls[t].status = "returned"
         /\ ChainMatches(regex_builder, calls[t].data, calls[t].begin, Len(regex_builder)))
            => calls[t].result =
                   Ok(ChainEnd(regex_builder, calls[t].data, calls[t].begin,
                               Len(regex_builder)) - calls[t].begin)

\* the byte at offset k of the pattern is a '\' that no '\' before it escapes
RECURSIVE EscapesNext(_, _)
EscapesNext(p, k) ==
    /\ k >= 0
    /\ k < Len(p)
    /\ p[k + 1] = "\\"
    /\ ~EscapesNext(p, k - 1)

\* C22: an unescaped '\' affects exactly the byte after it.  The escape is
\* pending only while that byte is the next one to process, so that later
\* special bytes are special again; and the escaped byte is a literal byte
\* whatever it is, a '$' at the last offset included.
C22_EscapeCoversOneByte ==
    /\ (pc = "scan" /\ state.backslash_present) => EscapesNext(expr, i - 1)
    /\ (pc \in {"scan", "done"} /\ state.dollar_anchor_present)
           => ~EscapesNext(expr, Len(expr) - 2)

\* the byte just processed, at offset i - 1
Prev == expr[i]

\* C23: a pending literal run ends the instant a bracket expression closes, a
\* quantifier is seen or an interval '{' opens.  Right after such a byte no
\* run is pending; when the byte was a quantifier or the '}' of a recognized
\* interval, the node it wrapped is the Literal of the run that stood before
\* it; and no byte of a recognized interval body is in a Literal node or in a
\* run.
C23_RunEndsAtSpecialConstruct ==
    /\ [][(Scanning /\ Cur = "{" /\ Unescaped) => ~state'.literal_string_in_progress]_vars
    /\ [][(/\ Scanning
           /\ Cur = "]"
           /\ state.character_class_parsing_in_progress
           /\ ~state'.character_class_parsing_in_progress
           /\ pc' = "scan")
              => ~state'.literal_string_in_progress]_vars
    /\ [][(/\ Scanning
           /\ Cur = "}"
           /\ Unescaped
           /\ state.interval_expr_parsing_in_progress
           /\ pc' = "scan"
           /\ regex_builder' # regex_builder)
              => /\ ~state'.literal_string_in_progress
                 /\ state'.literal_string = <<>>]_vars

RECURSIVE HasEmptyLiteral(_)
HasEmptyLiteral(node) ==
    IF node.kind = "Literal" THEN node.regex = <<>>
    ELSE IF node.kind \in {"CharClass", "Dot"} THEN FALSE
    ELSE HasEmptyLiteral(node.regex)

\* C24: an ordinary byte met while no literal run is pending appends no node,
\* and the node list never holds a Literal with empty content, whether at the
\* top level or wrapped by a quantifier or an interval.
C24_NoEmptyLiteral ==
    \A k \in 1..Len(regex_builder) : ~HasEmptyLiteral(regex_builder[k])

\* a decimal non-negative integer: one or more digits
IsDecimal(s) == Len(s) > 0 /\ \A k \in 1..Len(s) : IsDigit(s[k])

RECURSIVE DecimalValue(_)
DecimalValue(s) ==
    IF s = <<>> THEN 0 ELSE DecimalValue(Front(s)) * 10 + DigitValue(Last(s))

\* the texts before and after the comma at index c of the body
BeforeComma(body, c) == SubSeq(body, 1, c - 1)
AfterComma(body, c) == SubSeq(body, c + 1, Len(body))

\* the body is N, or N, or ,M or N,M with its one comma at index c
CommaForm(body, c) ==
    /\ body[c] = ","
    /\ BeforeComma(body, c) # <<>> \/ AfterComma(body, c) # <<>>
    /\ BeforeComma(body, c) = <<>> \/ IsDecimal(BeforeComma(body, c))
    /\ AfterComma(body, c) = <<>> \/ IsDecimal(AfterComma(body, c))

HasIntervalForm(body) == IsDecimal(body) \/ \E c \in 1..Len(body) : CommaForm(body, c)

\* the bounds the form stands for
FormBounds(body) ==
    IF IsDecimal(body) THEN <<DecimalValue(body), DecimalValue(body)>>
    ELSE LET c == CHOOSE k \in 1..Len(body) : CommaForm(body, k)
         IN  << IF BeforeComma(body, c) = <<>> THEN 0 ELSE DecimalValue(BeforeComma(body, c)),
                IF AfterComma(body, c) = <<>> THEN UsizeMax
                ELSE DecimalValue(AfterComma(body, c)) >>

\* the `}` arm closes a body that is valid UTF-8, with a node to wrap
ClosesBody ==
    /\ Scanning
    /\ Cur = "}"
    /\ Unescaped
    /\ state.interval_expr_parsing_in_progress
    /\ state.stack # <<>>
    /\ regex_builder # <<>>
    /\ IsUtf8(SubSeq(expr, Last(state.stack) + 2, i))

\* C25: a terminated {...} body becomes an Interval node exactly when it has
\* one of the forms N / N, / ,M / N,M, with bounds (N,N), (N,max), (0,M),
\* (N,M); with any other body the node list is left as it was.
C25_IntervalForms ==
    [][ClosesBody =>
          LET body == SubSeq(expr, Last(state.stack) + 2, i)
          IN  IF HasIntervalForm(body)
              THEN /\ pc' = "scan"
                   /\ regex_builder' =
                          Append(Front(regex_builder),
                                 IntervalRegex(Last(regex_builder), FormBounds(body)[1],
                                               FormBounds(body)[2]))
              ELSE regex_builder' = regex_builder]_vars

\* the compiled artifact has the flag as a field, and the field is set
Carries(regex, flag) == flag \in DOMAIN regex /\ regex[flag]

\* C26: the Regex that parse_regex returns carries the start-anchor flag
\* exactly when the scan saw '^' at offset 0 and the end-anchor flag exactly
\* when it saw '$' at the last offset.
C26_AnchorsInCompiledRegex ==
    pc = "done" =>
        \A flag \in {"caret_anchor_present", "dollar_anchor_present"} :
            state[flag] <=> Carries(build(regex_builder), flag)

\* the total length of the successive child matches from offset s on, each
\* beginning where the previous one ended, up to the first attempt that fails
\* or matches zero bytes
RECURSIVE SuccessiveMatches(_, _, _)
SuccessiveMatches(child, d, s) ==
    LET attempt == NodeEvaluate(child, d, s)
    IN  IF attempt.tag # "Ok" \/ attempt.len = 0 THEN 0
        ELSE attempt.len + SuccessiveMatches(child, d, s + attempt.len)

C28_PositionalConcatenation ==
    \A t \in DOMAIN calls :
        LET c == calls[t]
            n == Len(regex_builder)
        IN  /\ c.status = "running"
                  => /\ ChainMatches(regex_builder, c.data, c.begin, c.next - 1)
                     /\ c.begin + c.i = ChainEnd(regex_builder, c.data, c.begin, c.next - 1)
            /\ (c.status = "returned" /\ c.result.tag = "Ok")
                  => /\ ChainMatches(regex_builder, c.data, c.begin, n)
                     /\ c.begin + c.result.len = ChainEnd(regex_builder, c.data, c.begin, n)
                     /\ c.begin + c.result.len <= Len(c.data)
            /\ c.status = "returned"
                  => \A k \in 1..n :
                        (/\ ChainMatches(regex_builder, c.data, c.begin, k - 1)
                         /\ NodeEvaluate(regex_builder[k], c.data,
                                         ChainEnd(regex_builder, c.data, c.begin, k - 1)) = Err)
                            => c.result = Err

\* a call over two nodes returned the sum of a one-byte and a two-byte match
C28_Witness ==
    \E t \in DOMAIN calls :
        /\ regex_builder = <<LiteralRegex(<<"a">>), OneOrMoreRegex(LiteralRegex(<<"a">>))>>
        /\ calls[t].data = <<"a", "a", "a">>
        /\ calls[t].begin = 0
        /\ calls[t].status = "returned"
        /\ calls[t].result = Ok(3)

\* C29: the manager never pops from an empty queue: no pass starts more jobs
\* than are queued, so the manager thread never panics and no execute call
\* meets a poisoned mutex.
C29_ManagerNeverPopsEmptyQueue ==
    /\ manager # "panicked"
    /\ caller # "panicked"

\* C30: jobs are started once each, in the order execute was handed them;
\* the manager leaves its loop only with every job started; and when the
\* process is over no job handed to execute is left unstarted.
C30_EveryJobStartedInOrder ==
    /\ \A a, b \in 1..Len(jobs.started) : a # b => jobs.started[a] # jobs.started[b]
    /\ Len(jobs.started) <= Len(jobs.handed)
    /\ jobs.started = SubSeq(jobs.handed, 1, Len(jobs.started))
    /\ manager = "returned" => jobs.started = jobs.handed
    /\ caller = "exited" => jobs.started = jobs.handed

\* how many times the path f occurs in the jobs js
RECURSIVE Occurrences(_, _)
Occurrences(js, f) ==
    IF js = <<>> THEN 0
    ELSE Cardinality({k \in 1..Len(js[1]) : js[1][k] = f}) + Occurrences(Tail(js), f)

\* C31: for readable paths and n_workers >= 2, divide_files_by_workers returns
\* a first job holding every non-directory path and at most n_workers - 1
\* further jobs holding the directories, and every input path occurs in the
\* returned jobs exactly once.
C31_DividePartitions ==
    (pc = "divide_done" /\ result.tag = "Ok") =>
        /\ Len(result.jobs) >= 1
        /\ Len(result.jobs) <= n_workers
        /\ \A k \in 1..Len(files) :
              /\ Occurrences(result.jobs, files[k]) = 1
              /\ IsNotDir(files[k]) => \E m \in 1..Len(result.jobs[1]) : result.jobs[1][m] = files[k]
              /\ IsDir(files[k]) => Occurrences(<<result.jobs[1]>>, files[k]) = 0

\* C32: the workers list never holds more handles than the pool's count, in
\* the scheduling passes and in the drain after quit alike.
C32_WorkersWithinCount == Len(pool.workers) <= pool.count

\* the drain is under way with the workers list full and a job still queued
C32_Witness ==
    /\ manager = "drain"
    /\ pool.queue # <<>>
    /\ Len(pool.workers) = pool.count
    /\ \A k \in 1..Len(pool.workers) : pool.workers[k] \notin jobs.finished

====
